---- MODULE Spec2Model ----
(***************************************************************************)
(* Model of scrapers/playwright_fetch.py: one call of fetch_html, i.e. one *)
(* run of _fetch_html_async on the asyncio event loop, together with the   *)
(* tasks the "response" listener of _inject_403_retry_logic spawns, the    *)
(* in-page auto-scroll timer of _auto_scroll and the route callback        *)
(* _maybe_abort_media.                                                     *)
(*                                                                         *)
(* The event loop is single-threaded and cooperative: a coroutine runs     *)
(* without interruption from one await to the next, so every action below  *)
(* is the code between two awaits.  What the browser and the server do     *)
(* (which status a navigation gets, when a response event arrives, whether *)
(* a library call raises) is the environment and is chosen with \E.        *)
(***************************************************************************)
EXTENDS Integers, Sequences, FiniteSets, TLC

\* ------------------------------------------------------------------------
\* Bounds of the model
\* ------------------------------------------------------------------------
\* largest max_retries an arbitrary request is drawn with
MaxRetries == 1
\* sub-resource responses the browser delivers during the call, at most
MaxSub == 1
\* largest document height, in units of 256 px
MaxHeightUnits == 5

\* ------------------------------------------------------------------------
\* Program constants
\* ------------------------------------------------------------------------
\* UA_POOL, by position in the list
UA_POOL == {"chrome_desktop", "chrome_mobile"}
\* const dist = 1024 of the in-page scroll script
dist == 1024
\* viewport height of the stealth context
viewport_height == 768
\* the status on_response reacts to
BLOCKED == 403
\* max_retries: int = 2, the default of _fetch_html_async
default_max_retries == 2

\* MEDIA_EXTENSIONS; a string is the sequence of its characters
MEDIA_EXTENSIONS == {
    <<".", "j", "p", "g">>,
    <<".", "j", "p", "e", "g">>,
    <<".", "p", "n", "g">>,
    <<".", "w", "e", "b", "p">>,
    <<".", "g", "i", "f">>,
    <<".", "s", "v", "g">>,
    <<".", "m", "p", "4">>,
    <<".", "w", "e", "b", "m">>,
    <<".", "a", "v", "i">>,
    <<".", "m", "o", "v">>,
    <<".", "m", "p", "3">>,
    <<".", "o", "g", "g">>,
    <<".", "w", "o", "f", "f">>,
    <<".", "w", "o", "f", "f", "2">>,
    <<".", "t", "t", "f">>,
    <<".", "e", "o", "t">> }

\* statuses of document responses and of sub-resource responses
Statuses == {200, 403}
SubStatuses == {403, 404}
WaitConditions == {"networkidle", "load"}
Heights == {256 * k : k \in 1..MaxHeightUnits}

VARIABLES
    \* ---- the request (keyword arguments of _fetch_html_async) ----
    wait_until, scroll, stealth, block_media, retry_403, max_retries,
    \* ---- the server: status of the document response of the i-th navigation
    serverPlan,
    \* ---- main coroutine ----
    pc,          \* await point of _fetch_html_async
    browser,     \* "none" | "open" | "closed"
    launched,    \* number of browsers launched by this call
    context,     \* the browser context: user agent, locale, timezone, headers
    patched,     \* stealth_async applied
    routed,      \* page.route installed
    listening,   \* page.on("response", on_response) done
    html,        \* value of page.content(): [nav, status], NoDoc before
    outcome,     \* "none" | "returned" | "raised"
    failedAt,    \* pc at which the call raised, or "none"
    \* ---- retry closure ----
    attempts,    \* attempts["count"]
    handlers,    \* on_response tasks past line 165, in creation order
    \* ---- the page ----
    navs,        \* navigations started on the page, in order
    page,        \* document the page shows: [nav, status], NoDoc before
    \* ---- in-page scroll script ----
    scrolled,    \* let scrolled of the script, 0 when no script runs
    scrollHeight, \* document.body.scrollHeight, 0 when no script runs
    \* ---- route callback ----
    request,     \* route.request.url of the last routed request, <<>> before
    verdict      \* what _maybe_abort_media did with it: "abort" | "continue"

vars == <<wait_until, scroll, stealth, block_media, retry_403, max_retries,
          serverPlan, pc, browser, launched, context, patched, routed,
          listening, html, outcome, failedAt, attempts, handlers, navs, page,
          scrolled, scrollHeight, request, verdict>>

reqVars == <<wait_until, scroll, stealth, block_media, retry_403, max_retries,
             serverPlan>>
scrollVars == <<scrolled, scrollHeight>>
routeVars == <<request, verdict>>

\* ------------------------------------------------------------------------
\* Values
\* ------------------------------------------------------------------------
NoDoc == [nav |-> 0, status |-> 0]
NoContext == [user_agent |-> "none", locale |-> "none",
              timezone_id |-> "none", no_cache |-> FALSE]

\* context_opts of lines 67-76, for one choice ua of random.choice(UA_POOL)
context_opts(ua) ==
    IF stealth
    THEN [user_agent |-> ua, locale |-> "en-US",
          timezone_id |-> "America/New_York", no_cache |-> FALSE]
    ELSE [user_agent |-> "default", locale |-> "default",
          timezone_id |-> "default", no_cache |-> FALSE]

Terminal == {"returned", "failed"}
Running(h) == handlers[h].pc \in {"set_headers", "set_user_agent", "sleep", "goto_wait"}

\* ------------------------------------------------------------------------
\* Which await follows which in _fetch_html_async (the `if` of each option)
\* ------------------------------------------------------------------------
AfterGoto == IF scroll THEN "evaluate" ELSE "content"
AfterRouteAlways == "inject"
AfterRoute == IF retry_403 THEN "inject" ELSE "goto"
AfterStealthSkipsRoute == AfterRoute
AfterStealth == IF block_media THEN "route" ELSE AfterRoute
AfterContext == IF stealth THEN "stealth_async" ELSE AfterStealth

\* ------------------------------------------------------------------------
\* on_response, lines 160-169: the part that runs before its first await
\* ------------------------------------------------------------------------
IsBlockedAny4xx(status) == status >= 400
IsBlocked(status) == status = BLOCKED

ExhaustedOffByOne == attempts > max_retries
Exhausted == attempts >= max_retries

\* 0.8 * attempts["count"], in tenths of a second
BackoffConstant(count) == 8
Backoff(count) == 8 * count

\* a "response" event of navigation nav is emitted on the page
on_response(status, url, nav) ==
    IF listening /\ IsBlocked(status) /\ ~Exhausted
    THEN /\ attempts' = attempts + 1
         /\ handlers' = Append(handlers,
                [pc |-> "set_headers", url |-> url, nav |-> nav,
                 delay |-> 0, retry_nav |-> 0])
    ELSE UNCHANGED <<attempts, handlers>>

\* page.goto(url, wait_until=wait) is called by caller `by` (0 = main flow)
StartNav(by, url, wait) ==
    navs' = Append(navs, [by |-> by, url |-> url, wait |-> wait,
                          state |-> "pending", status |-> 0, subs |-> <<>>])

\* status the server answers the i-th navigation with
PlanStatus(i) == serverPlan[IF i <= Len(serverPlan) THEN i ELSE Len(serverPlan)]

\* ------------------------------------------------------------------------
\* Init: one call of fetch_html(url, **kwargs) about to start
\* ------------------------------------------------------------------------
\* the state of a call before its first step
Start ==
    \* one status for each navigation the call can start
    /\ serverPlan \in [1..(IF retry_403 THEN max_retries + 1 ELSE 1) -> Statuses]
    /\ pc = "launch"
    /\ browser = "none"
    /\ launched = 0
    /\ context = NoContext
    /\ patched = FALSE
    /\ routed = FALSE
    /\ listening = FALSE
    /\ html = NoDoc
    /\ outcome = "none"
    /\ failedAt = "none"
    /\ attempts = 0
    /\ handlers = <<>>
    /\ navs = <<>>
    /\ page = NoDoc
    /\ scrolled = 0
    /\ scrollHeight = 0
    /\ request = <<>>
    /\ verdict = "none"

Init ==
    /\ wait_until \in WaitConditions
    /\ scroll \in BOOLEAN
    /\ stealth \in BOOLEAN
    /\ block_media \in BOOLEAN
    /\ retry_403 \in BOOLEAN
    /\ max_retries \in 0..MaxRetries
    /\ Start

\* ------------------------------------------------------------------------
\* _fetch_html_async, one action per await
\* ------------------------------------------------------------------------
\* line 64: browser = await p.chromium.launch(headless=True)
Launch ==
    /\ pc = "launch"
    /\ browser' = "open"
    /\ launched' = launched + 1
    /\ pc' = "new_context"
    /\ UNCHANGED <<reqVars, routeVars, context, patched, routed, listening, html, outcome,
                   failedAt, attempts, handlers, navs, page, scrollVars>>

\* lines 67-79: context = await browser.new_context(**context_opts); new_page
NewContext ==
    /\ pc = "new_context"
    /\ \E ua \in UA_POOL : context' = context_opts(ua)
    /\ pc' = AfterContext
    /\ UNCHANGED <<reqVars, routeVars, browser, launched, patched, routed, listening, html,
                   outcome, failedAt, attempts, handlers, navs, page, scrollVars>>

\* lines 82-83: await stealth_async(page)
StealthPatch ==
    /\ pc = "stealth_async"
    /\ patched' = TRUE
    /\ pc' = AfterStealth
    /\ UNCHANGED <<reqVars, routeVars, browser, launched, context, routed, listening, html,
                   outcome, failedAt, attempts, handlers, navs, page, scrollVars>>

\* lines 86-90: await page.route("**/*", ...)
InstallRoute ==
    /\ pc = "route"
    /\ routed' = TRUE
    /\ pc' = AfterRoute
    /\ UNCHANGED <<reqVars, routeVars, browser, launched, context, patched, listening, html,
                   outcome, failedAt, attempts, handlers, navs, page, scrollVars>>

\* lines 92-93 and 151-177: attempts = {"count": 0}; page.on("response", ...)
Inject ==
    /\ pc = "inject"
    /\ attempts' = 0
    /\ listening' = TRUE
    /\ pc' = "goto"
    /\ UNCHANGED <<reqVars, routeVars, browser, launched, context, patched, routed, html,
                   outcome, failedAt, handlers, navs, page, scrollVars>>

\* line 96: page.goto(url, wait_until=wait_until) is called
GotoStart ==
    /\ pc = "goto"
    /\ StartNav(0, "url", wait_until)
    /\ pc' = "goto_wait"
    /\ UNCHANGED <<reqVars, routeVars, browser, launched, context, patched, routed,
                   listening, html, outcome, failedAt, attempts, handlers, page,
                   scrollVars>>

\* line 96: the awaited goto returns: its document has been received and the
\* wait condition reached
GotoReturn ==
    /\ pc = "goto_wait"
    /\ navs[1].state = "committed"
    /\ pc' = AfterGoto
    /\ UNCHANGED <<reqVars, routeVars, browser, launched, context, patched, routed,
                   listening, html, outcome, failedAt, attempts, handlers, navs,
                   page, scrollVars>>

\* ------------------------------------------------------------------------
\* _auto_scroll, lines 123-140: the script page.evaluate runs in the page
\* ------------------------------------------------------------------------
\* if (scrolled >= document.body.scrollHeight), checked after scrolled += dist
ScrollFinishedStrict(s, h) == s > h
ScrollFinishedBeforeStep(s, h) == s - dist >= h
ScrollFinished(s, h) == s >= h

\* setInterval callbacks that have fired
ticks == scrolled \div dist

\* lines 99, 125-129: page.evaluate starts the script in the document shown
ScrollStart ==
    /\ pc = "evaluate"
    /\ browser = "open"
    /\ scrolled' = 0
    /\ \E h \in Heights : scrollHeight' = h
    /\ pc' = "auto_scroll"
    /\ UNCHANGED <<reqVars, routeVars, browser, launched, context, patched, routed,
                   listening, html, outcome, failedAt, attempts, handlers, navs,
                   page>>

\* one firing of the setInterval callback, lines 130-137
ScrollTick ==
    /\ pc = "auto_scroll"
    /\ browser = "open"
    /\ scrolled' = scrolled + dist
    /\ pc' = IF ScrollFinished(scrolled + dist, scrollHeight)
             THEN "scroll_pause" ELSE "auto_scroll"
    /\ UNCHANGED <<reqVars, routeVars, browser, launched, context, patched, routed,
                   listening, html, outcome, failedAt, attempts, handlers, navs,
                   page, scrollHeight>>

\* lazily loaded content extends the document while the timer runs
GrowPage ==
    /\ pc = "auto_scroll"
    /\ browser = "open"
    /\ \E h \in Heights : h > scrollHeight /\ scrollHeight' = h
    /\ UNCHANGED <<reqVars, routeVars, pc, browser, launched, context, patched, routed,
                   listening, html, outcome, failedAt, attempts, handlers, navs,
                   page, scrolled>>

\* setTimeout(res, 400) fires: the promise resolves and evaluate returns
ScrollReturn ==
    /\ pc = "scroll_pause"
    /\ browser = "open"
    /\ scrolled' = 0
    /\ scrollHeight' = 0
    /\ pc' = "content"
    /\ UNCHANGED <<reqVars, routeVars, browser, launched, context, patched, routed,
                   listening, html, outcome, failedAt, attempts, handlers, navs,
                   page>>

\* ------------------------------------------------------------------------
\* lines 101-103 and the exit of `async with async_playwright()`
\* ------------------------------------------------------------------------
\* line 101: html = await page.content()
Content ==
    /\ pc = "content"
    /\ html' = page
    /\ pc' = "close"
    /\ UNCHANGED <<reqVars, routeVars, browser, launched, context, patched, routed,
                   listening, outcome, failedAt, attempts, handlers, navs, page,
                   scrollVars>>

\* line 102: await browser.close()
Close ==
    /\ pc = "close"
    /\ browser' = "closed"
    /\ pc' = "exit"
    /\ UNCHANGED <<reqVars, routeVars, launched, context, patched, routed, listening, html,
                   outcome, failedAt, attempts, handlers, navs, page, scrollVars>>

\* what leaving `async with async_playwright() as p` (line 63) does to the
\* browser: the driver is stopped and takes a still open browser with it
AexitLeaksBrowser(b) == b
Aexit(b) == IF b = "open" THEN "closed" ELSE b

\* asyncio.run (line 115) cancels the tasks still pending when the main
\* coroutine has finished
CancelNothing == handlers

CancelPending ==
    [h \in 1..Len(handlers) |->
        IF Running(h) THEN [handlers[h] EXCEPT !.pc = "cancelled"]
        ELSE handlers[h]]

\* line 103: return html, through the exit of the `async with`
Return ==
    /\ pc = "exit"
    /\ browser' = Aexit(browser)
    /\ outcome' = "returned"
    /\ handlers' = CancelPending
    /\ pc' = "returned"
    /\ UNCHANGED <<reqVars, routeVars, launched, context, patched, routed, listening, html,
                   failedAt, attempts, navs, page, scrollVars>>

\* awaits of _fetch_html_async that can raise
Raising == {"launch", "new_context", "stealth_async", "route", "goto_wait",
            "evaluate", "auto_scroll", "scroll_pause", "content", "close"}

\* an awaited call of the main flow raises: the exception leaves the
\* `async with` and reaches the caller of fetch_html
RaiseSwallowed ==
    /\ pc \in Raising
    /\ failedAt' = pc
    /\ browser' = Aexit(browser)
    /\ outcome' = "returned"
    /\ handlers' = CancelPending
    /\ pc' = "returned"
    /\ UNCHANGED <<reqVars, routeVars, launched, context, patched, routed, listening, html,
                   attempts, navs, page, scrollVars>>

Raise ==
    /\ pc \in Raising
    /\ failedAt' = pc
    /\ browser' = Aexit(browser)
    /\ outcome' = "raised"
    /\ handlers' = CancelPending
    /\ pc' = "failed"
    /\ UNCHANGED <<reqVars, routeVars, launched, context, patched, routed, listening, html,
                   attempts, navs, page, scrollVars>>

\* ------------------------------------------------------------------------
\* The browser: responses of the navigation in progress
\* ------------------------------------------------------------------------
Current == Len(navs)

RECURSIVE SubCount(_)
\* sub-resource responses delivered in the first n navigations
SubCount(n) == IF n = 0 THEN 0 ELSE Len(navs[n].subs) + SubCount(n - 1)

\* the document response of the latest navigation arrives: the page commits
\* to it and the "response" event is emitted
DocumentResponse ==
    /\ pc \notin Terminal
    /\ browser = "open"
    /\ Current > 0
    /\ navs[Current].state = "pending"
    /\ navs' = [navs EXCEPT ![Current].state = "committed",
                            ![Current].status = PlanStatus(Current)]
    /\ page' = [nav |-> Current, status |-> PlanStatus(Current)]
    /\ on_response(PlanStatus(Current), navs[Current].url, Current)
    /\ UNCHANGED <<reqVars, routeVars, pc, browser, launched, context, patched, routed,
                   listening, html, outcome, failedAt, scrollVars>>

\* a sub-resource of the current document is answered
SubResponse ==
    /\ pc \notin Terminal
    /\ browser = "open"
    /\ Current > 0
    /\ navs[Current].state = "committed"
    /\ SubCount(Current) < MaxSub
    /\ \E st \in SubStatuses :
          /\ navs' = [navs EXCEPT ![Current].subs = Append(@, st)]
          /\ on_response(st, "sub", Current)
    /\ UNCHANGED <<reqVars, routeVars, pc, browser, launched, context, patched, routed,
                   listening, html, outcome, failedAt, page, scrollVars>>

\* ------------------------------------------------------------------------
\* on_response, lines 170-175: the task of one qualifying 403, await by await
\* ------------------------------------------------------------------------
\* line 170: set_extra_http_headers({"Cache-Control": "no-cache"}) returns
SetHeadersRotatesFirst(h) ==
    /\ handlers[h].pc = "set_headers"
    /\ browser = "open"
    /\ \E new_ua \in UA_POOL : context' = [context EXCEPT !.user_agent = new_ua]
    /\ handlers' = [handlers EXCEPT ![h].pc = "set_user_agent"]
    /\ UNCHANGED <<reqVars, routeVars, pc, browser, launched, patched, routed, listening,
                   html, outcome, failedAt, attempts, navs, page, scrollVars>>

SetHeadersDropsLocale(h) ==
    /\ handlers[h].pc = "set_headers"
    /\ browser = "open"
    /\ context' = [context EXCEPT !.no_cache = TRUE, !.locale = "default"]
    /\ handlers' = [handlers EXCEPT ![h].pc = "set_user_agent"]
    /\ UNCHANGED <<reqVars, routeVars, pc, browser, launched, patched, routed, listening,
                   html, outcome, failedAt, attempts, navs, page, scrollVars>>

SetHeaders(h) ==
    /\ handlers[h].pc = "set_headers"
    /\ browser = "open"
    /\ context' = [context EXCEPT !.no_cache = TRUE]
    /\ handlers' = [handlers EXCEPT ![h].pc = "set_user_agent"]
    /\ UNCHANGED <<reqVars, routeVars, pc, browser, launched, patched, routed, listening,
                   html, outcome, failedAt, attempts, navs, page, scrollVars>>

\* line 171 returns, and line 174 starts asyncio.sleep(0.8 * attempts["count"])
\* with the counter as it is now.  new_ua is the draw of line 169: it reads
\* no state and line 171 is its only use, so it is drawn here.
SetUserAgent(h) ==
    /\ handlers[h].pc = "set_user_agent"
    /\ browser = "open"
    /\ \E new_ua \in UA_POOL : context' = [context EXCEPT !.user_agent = new_ua]
    /\ handlers' = [handlers EXCEPT ![h].pc = "sleep",
                                    ![h].delay = Backoff(attempts)]
    /\ UNCHANGED <<reqVars, routeVars, pc, browser, launched, patched, routed, listening,
                   html, outcome, failedAt, attempts, navs, page, scrollVars>>

\* the sleep is over and line 175 calls page.goto(resp.url, "networkidle")
RetryRequestWait(h) ==
    /\ handlers[h].pc = "sleep"
    /\ browser = "open"
    /\ StartNav(h, handlers[h].url, wait_until)
    /\ handlers' = [handlers EXCEPT ![h].pc = "goto_wait",
                                    ![h].retry_nav = Len(navs) + 1]
    /\ UNCHANGED <<reqVars, routeVars, pc, browser, launched, context, patched, routed,
                   listening, html, outcome, failedAt, attempts, page,
                   scrollVars>>

RetryOriginalUrl(h) ==
    /\ handlers[h].pc = "sleep"
    /\ browser = "open"
    /\ StartNav(h, "url", "networkidle")
    /\ handlers' = [handlers EXCEPT ![h].pc = "goto_wait",
                                    ![h].retry_nav = Len(navs) + 1]
    /\ UNCHANGED <<reqVars, routeVars, pc, browser, launched, context, patched, routed,
                   listening, html, outcome, failedAt, attempts, page,
                   scrollVars>>

Retry(h) ==
    /\ handlers[h].pc = "sleep"
    /\ browser = "open"
    /\ StartNav(h, handlers[h].url, "networkidle")
    /\ handlers' = [handlers EXCEPT ![h].pc = "goto_wait",
                                    ![h].retry_nav = Len(navs) + 1]
    /\ UNCHANGED <<reqVars, routeVars, pc, browser, launched, context, patched, routed,
                   listening, html, outcome, failedAt, attempts, page,
                   scrollVars>>

\* line 175: the awaited goto of the retry returns
RetryReturn(h) ==
    /\ handlers[h].pc = "goto_wait"
    /\ browser = "open"
    /\ navs[handlers[h].retry_nav].state = "committed"
    /\ handlers' = [handlers EXCEPT ![h].pc = "done"]
    /\ UNCHANGED <<reqVars, routeVars, pc, browser, launched, context, patched, routed,
                   listening, html, outcome, failedAt, attempts, navs, page,
                   scrollVars>>

\* the sleep is over after the browser has been closed: line 175 calls
\* page.goto on the page of the closed browser, and the call raises
RetryOnClosed(h) ==
    /\ handlers[h].pc = "sleep"
    /\ browser # "open"
    /\ handlers' = [handlers EXCEPT ![h].pc = "goto_closed"]
    /\ UNCHANGED <<reqVars, routeVars, pc, browser, launched, context, patched, routed,
                   listening, html, outcome, failedAt, attempts, navs, page,
                   scrollVars>>

\* the call the task is waiting for raises: any pending call once the browser
\* is closed, line 171 (the context object of the library offers no
\* set_user_agent), or the navigation of line 175.  The exception ends the
\* task only: nothing awaits it.
HandlerRaise(h) ==
    /\ handlers[h].pc \in {"set_headers", "set_user_agent", "goto_wait"}
    /\ \/ browser # "open"
       \/ handlers[h].pc \in {"set_user_agent", "goto_wait"}
    /\ handlers' = [handlers EXCEPT ![h].pc = "raised"]
    /\ UNCHANGED <<reqVars, routeVars, pc, browser, launched, context, patched, routed,
                   listening, html, outcome, failedAt, attempts, navs, page,
                   scrollVars>>

HandlerStep ==
    /\ pc \notin Terminal
    /\ \E h \in 1..Len(handlers) :
          \/ SetHeaders(h)
          \/ SetUserAgent(h)
          \/ Retry(h)
          \/ RetryReturn(h)
          \/ RetryOnClosed(h)
          \/ HandlerRaise(h)

\* ------------------------------------------------------------------------
\* _maybe_abort_media, lines 143-148, and the requests it is called for
\* ------------------------------------------------------------------------
\* str.lower(), on the upper-case characters the requests below use
LowerChar(c) ==
    CASE c = "P" -> "p"
      [] c = "N" -> "n"
      [] c = "G" -> "g"
      [] OTHER -> c
lower(u) == [i \in DOMAIN u |-> LowerChar(u[i])]

\* str.endswith(ext)
endswith(u, ext) ==
    /\ Len(u) >= Len(ext)
    /\ SubSeq(u, Len(u) - Len(ext) + 1, Len(u)) = ext

\* the decision of _maybe_abort_media(route, banned_exts) for route.request.url
Aborts(url, banned_exts) == \E ext \in banned_exts : endswith(lower(url), ext)

\* request URLs: host "h", a path, and optionally a query string
Stems == { <<"h", "/", "a">>, <<"h", "/", "a", ".", "b">> }
Endings == MEDIA_EXTENSIONS \cup
           { <<>>, <<".", "h", "t", "m", "l">>, <<".", "P", "N", "G">>,
             <<".", "p", "n", "g", "x">> }
Tails == { <<>>, <<"?", "v">>, <<"?", "f", ".", "p", "n", "g">> }
Urls == { s \o e \o t : s \in Stems, e \in Endings, t \in Tails }

\* the page asks for url while the route of lines 87-90 is installed
RouteRequest ==
    /\ routed
    /\ browser = "open"
    /\ Len(navs) > 0
    /\ pc \notin Terminal
    /\ \E url \in Urls :
          /\ request' = url
          /\ verdict' = IF Aborts(url, MEDIA_EXTENSIONS) THEN "abort" ELSE "continue"
    /\ UNCHANGED <<reqVars, pc, browser, launched, context, patched, routed,
                   listening, html, outcome, failedAt, attempts, handlers, navs,
                   page, scrollVars>>

\* ------------------------------------------------------------------------
\* The fetch
\* ------------------------------------------------------------------------
Next ==
    \/ Launch
    \/ NewContext
    \/ StealthPatch
    \/ InstallRoute
    \/ Inject
    \/ GotoStart
    \/ GotoReturn
    \/ ScrollStart
    \/ ScrollTick
    \/ GrowPage
    \/ ScrollReturn
    \/ Content
    \/ Close
    \/ Return
    \/ Raise
    \/ DocumentResponse
    \/ SubResponse
    \/ HandlerStep

Spec == Init /\ [][Next]_vars

\* ------------------------------------------------------------------------
\* The call the module itself makes (lines 195-200):
\* fetch_html(url, stealth=True, block_media=True, retry_403=True), the other
\* options at their defaults, against any server
\* ------------------------------------------------------------------------
InitMain ==
    /\ wait_until = "networkidle"
    /\ scroll = TRUE
    /\ stealth = TRUE
    /\ block_media = TRUE
    /\ retry_403 = TRUE
    /\ max_retries = default_max_retries
    /\ Start

SpecMain == InitMain /\ [][Next]_vars

\* the __main__ call with the timers of the scroll script firing: a
\* setInterval callback that is due runs, and so does the setTimeout of the
\* final pause
SpecMainFair == SpecMain /\ WF_vars(ScrollTick) /\ WF_vars(ScrollReturn)

\* ------------------------------------------------------------------------
\* The same call up to its navigation, with the requests the page makes
\* ------------------------------------------------------------------------
NextRoute ==
    \/ Launch
    \/ NewContext
    \/ StealthPatch
    \/ InstallRoute
    \/ Inject
    \/ GotoStart
    \/ RouteRequest

SpecRoute == InitMain /\ [][NextRoute]_vars

\* ------------------------------------------------------------------------
\* What the properties speak of
\* ------------------------------------------------------------------------
\* navigations started by on_response tasks, i.e. beyond the original one
RetryNavs == Cardinality({n \in DOMAIN navs : navs[n].by # 0})

\* every navigation the call can make is answered 403
AllBlocked == \A i \in DOMAIN serverPlan : serverPlan[i] = 403

\* 403 responses delivered so far: documents and sub-resources
Blocked403 ==
    {<<n, 0>> : n \in {m \in DOMAIN navs : navs[m].status = 403}}
    \cup UNION {{<<n, i>> : i \in {j \in DOMAIN navs[n].subs : navs[n].subs[j] = 403}} :
                   n \in DOMAIN navs}
Count403 == Cardinality(Blocked403)
NoSub403 == \A n \in DOMAIN navs : \A i \in DOMAIN navs[n].subs : navs[n].subs[i] # 403

\* the path of a URL: what precedes its query string
PathEnd(u) ==
    IF \E i \in DOMAIN u : u[i] = "?"
    THEN (CHOOSE i \in DOMAIN u :
             /\ u[i] = "?"
             /\ \A j \in 1..(i - 1) : u[j] # "?") - 1
    ELSE Len(u)
PathOf(u) == SubSeq(u, 1, PathEnd(u))

\* ------------------------------------------------------------------------
\* Properties
\* ------------------------------------------------------------------------
\* C1: with retry_403 and max_retries = N the retry listener starts at most N
\* navigations beyond the original one, and exactly N by the time the call
\* has returned when every navigation is answered 403.
C1_RetryCount ==
    retry_403 =>
        /\ RetryNavs <= max_retries
        /\ (outcome = "returned" /\ AllBlocked) => RetryNavs = max_retries

\* C2: with retry_403 = False no navigation but the original one is ever
\* started, whatever the statuses of the responses; the listener is never
\* registered and nothing is counted.
C2_NoRetryWhenDisabled ==
    ~retry_403 =>
        /\ RetryNavs = 0
        /\ Len(navs) <= 1
        /\ ~listening
        /\ attempts = 0
        /\ handlers = <<>>

\* C2 witness: a call without retry_403 has returned although its document
\* and a sub-resource were both answered 403.
C2_Witness ==
    /\ ~retry_403
    /\ max_retries >= 1
    /\ outcome = "returned"
    /\ navs[1].status = 403
    /\ navs[1].subs = <<403>>

\* C3: within one navigation only the first qualifying 403 starts a retry:
\* no two on_response tasks that passed line 163 belong to responses of the
\* same navigation.
C3_OneRetryPerNavigation ==
    \A g, h \in DOMAIN handlers : g # h => handlers[g].nav # handlers[h].nav

\* C4: a call launches at most one browser, and once the call has returned
\* or raised (at any step after the launch) it has launched exactly one and
\* that browser is closed; a call that raised at the launch left none open.
C4_OneSessionTornDown ==
    /\ launched <= 1
    /\ pc \in Terminal => browser # "open"
    /\ (pc \in Terminal /\ failedAt # "launch") => (launched = 1 /\ browser = "closed")

\* C4 witness: the call raised while the scroll script ran, with a retry task
\* pending, and its one browser is closed.
C4_Witness ==
    /\ pc = "failed"
    /\ failedAt = "auto_scroll"
    /\ launched = 1
    /\ browser = "closed"
    /\ Len(handlers) >= 1

\* C5: the URL is answered 403, then 200 (no sub-resource is answered 403),
\* max_retries = 2: when the call returns exactly one retry navigation was
\* made, attempts is 1 and the returned document is the 200 page of the retry.
C5_RetryThen200 ==
    (/\ outcome = "returned"
     /\ retry_403 /\ max_retries = 2
     /\ serverPlan = <<403, 200, 200>>
     /\ NoSub403)
    => (/\ RetryNavs = 1
        /\ attempts = 1
        /\ html = [nav |-> 2, status |-> 200])

\* C6: every navigation is answered 403 (no sub-resource is), max_retries = 2:
\* when the call returns exactly two retry navigations were made, none is
\* pending, and the returned document is the 403 page of the last one.
C6_AllBlockedExhausts ==
    (/\ outcome = "returned"
     /\ retry_403 /\ max_retries = 2
     /\ AllBlocked
     /\ NoSub403)
    => (/\ RetryNavs = 2
        /\ attempts = 2
        /\ html = [nav |-> 3, status |-> 403])

\* C7: the listener reacts to status 403 only: attempts, the retry tasks and
\* the retry navigations never outnumber the 403 responses delivered, so a
\* call that saw only other statuses ends with attempts = 0 and no retry.
C7_OnlyReactsTo403 ==
    /\ attempts <= Count403
    /\ Len(handlers) <= Count403
    /\ RetryNavs <= Count403

\* C7 witness: retry_403 is on, the document was answered 200 and a
\* sub-resource 404, and the call returned with attempts = 0 after the one
\* original navigation.
C7_Witness ==
    /\ retry_403
    /\ max_retries >= 1
    /\ outcome = "returned"
    /\ navs[1].status = 200
    /\ navs[1].subs = <<404>>
    /\ attempts = 0
    /\ Len(navs) = 1
    /\ html = [nav |-> 1, status |-> 200]

\* C8: when a retry task starts its sleep, the delay is 8 tenths of a second
\* times the value attempts has at that moment, which is in 1..max_retries.
C8_LinearBackoff ==
    [][\A h \in DOMAIN handlers :
          (handlers[h].pc = "set_user_agent" /\ handlers'[h].pc = "sleep")
          => /\ handlers'[h].delay = 8 * attempts
             /\ attempts \in 1..max_retries]_vars

\* C8 witness: a task sleeps 1.6 s, the delay of attempts = 2.
C8_Witness ==
    \E h \in DOMAIN handlers :
        /\ handlers[h].pc = "sleep"
        /\ attempts = 2
        /\ handlers[h].delay = 16

\* C9: with the route installed a request is aborted if and only if the path
\* of its URL ends with one of MEDIA_EXTENSIONS (letter case ignored).
C9_AbortIffPathIsMedia ==
    verdict # "none" =>
        (verdict = "abort"
         <=> \E ext \in MEDIA_EXTENSIONS : endswith(lower(PathOf(request)), ext))

\* C10: when the measured height does not exceed the viewport, the scroll
\* script stops at its first height check: no check has been made while it
\* runs, and exactly one tick was made once the timer is cleared.
C10_ShortPageOneCheck ==
    scrollHeight <= viewport_height =>
        /\ pc = "auto_scroll" => ticks = 0
        /\ pc = "scroll_pause" => ticks = 1

\* C10 witness: the timer was cleared at the first check on a page exactly as
\* high as the viewport.
C10_Witness ==
    /\ pc = "scroll_pause"
    /\ scrollHeight = viewport_height
    /\ ticks = 1

\* C11: with stealth the identity of the context (user agent, locale,
\* timezone) is set when the context is created, by new_context and from
\* context_opts; afterwards no step changes locale or timezone, and the user
\* agent changes only in the step where a retry task's set_user_agent returns.
C11_IdentityFrame ==
    [][stealth =>
          /\ (context = NoContext /\ context' # NoContext)
             => /\ pc = "new_context"
                /\ context'.user_agent \in UA_POOL
                /\ context'.locale = "en-US"
                /\ context'.timezone_id = "America/New_York"
          /\ context # NoContext
             => /\ context'.locale = context.locale
                /\ context'.timezone_id = context.timezone_id
                /\ context'.user_agent # context.user_agent
                   => \E h \in DOMAIN handlers :
                         /\ handlers[h].pc = "set_user_agent"
                         /\ handlers'[h].pc = "sleep"]_vars

\* C11 witness: the call has returned after a retry task merged its header,
\* applied a user agent and re-navigated; locale and timezone are the ones
\* of context_opts.
C11_Witness ==
    /\ stealth
    /\ outcome = "returned"
    /\ \E h \in DOMAIN handlers : handlers[h].pc = "done"
    /\ context.no_cache
    /\ context.user_agent \in UA_POOL
    /\ context.locale = "en-US"
    /\ context.timezone_id = "America/New_York"

\* C12: one call of fetch_html is one run of _fetch_html_async (one launch,
\* one original navigation) and ends in exactly one of two ways: it returns
\* the document page.content() gave that run, or it raises the exception of
\* the await of that run that failed.  An exception of a retry task is not
\* an outcome of the call.
C12_OneRunReturnsOrRaises ==
    /\ launched <= 1
    /\ Cardinality({n \in DOMAIN navs : navs[n].by = 0}) <= 1
    /\ (pc = "returned") <=> (outcome = "returned")
    /\ (pc = "failed") <=> (outcome = "raised")
    /\ outcome = "returned"
       => /\ failedAt = "none"
          /\ html # NoDoc
          /\ html.nav \in DOMAIN navs
          /\ html.status = navs[html.nav].status
    /\ outcome = "raised" => failedAt \in Raising
    /\ outcome = "none" => failedAt = "none"

\* C12 witness: the call returned the 403 document of its one navigation
\* although its retry task had raised.
C12_Witness ==
    /\ outcome = "returned"
    /\ html = [nav |-> 1, status |-> 403]
    /\ Len(handlers) = 1
    /\ handlers[1].pc = "raised"

\* C13 as claimed: in a retry the user agent is rotated before the
\* Cache-Control header is merged, so a context that carries the header has
\* been given a user agent of the pool.  (Without stealth the context starts
\* with the default user agent of the browser, so the rotation shows.)
C13_RotationBeforeHeader ==
    (~stealth /\ context.no_cache) => context.user_agent \in UA_POOL

\* C13 amended: the effects of a retry task come in the order of lines
\* 165-175: attempts is incremented (before the task exists as the h-th one),
\* then the Cache-Control header is merged, then the user agent is applied,
\* then the sleep starts, then the navigation is started.
C13_HeaderBeforeRotation ==
    /\ (~stealth /\ context.user_agent \in UA_POOL) => context.no_cache
    /\ \A h \in DOMAIN handlers :
          /\ attempts >= h
          /\ handlers[h].pc \in {"set_headers", "set_user_agent"}
             => handlers[h].delay = 0 /\ handlers[h].retry_nav = 0
          /\ handlers[h].pc \in {"set_user_agent", "sleep", "goto_wait", "done"}
             => context.no_cache
          /\ handlers[h].pc \in {"sleep", "goto_wait", "done"}
             => context.user_agent \in UA_POOL /\ handlers[h].delay > 0
          /\ handlers[h].pc = "sleep" => handlers[h].retry_nav = 0
          /\ handlers[h].pc \in {"goto_wait", "done"} => handlers[h].retry_nav > 0
          /\ handlers[h].delay > 0
             => context.no_cache /\ context.user_agent \in UA_POOL
          /\ handlers[h].retry_nav > 0
             => /\ handlers[h].delay > 0
                /\ handlers[h].retry_nav \in DOMAIN navs
                /\ navs[handlers[h].retry_nav].by = h

\* C13 witness: without stealth a retry task has gone through all five
\* effects and waits for its navigation.
C13_Witness ==
    /\ ~stealth
    /\ attempts = 1
    /\ Len(handlers) = 1
    /\ handlers[1].pc = "goto_wait"
    /\ context.no_cache
    /\ context.user_agent \in UA_POOL
    /\ handlers[1].delay = 8
    /\ navs[handlers[1].retry_nav].by = 1

\* the awaits of _fetch_html_async in the order of lines 64-103, and the
\* option each one depends on
Order == <<"launch", "new_context", "stealth_async", "route", "inject", "goto",
           "goto_wait", "evaluate", "auto_scroll", "scroll_pause", "content",
           "close", "exit", "returned">>
Position(p) == CHOOSE i \in DOMAIN Order : Order[i] = p
Required(p) ==
    CASE p = "stealth_async" -> stealth
      [] p = "route" -> block_media
      [] p = "inject" -> retry_403
      [] p \in {"evaluate", "auto_scroll", "scroll_pause"} -> scroll
      [] OTHER -> TRUE

\* what is in place once the original navigation has been started
InstalledBeforeNavigation ==
    Len(navs) >= 1 =>
        /\ navs[1].by = 0
        /\ browser # "none"
        /\ context # NoContext
        /\ patched <=> stealth
        /\ routed <=> block_media
        /\ listening <=> retry_403
        /\ (retry_403 /\ max_retries >= 1 /\ Count403 >= 1) => attempts >= 1

\* C14: the main flow goes through launch, new context, stealth patch (if
\* stealth), route (if block_media), listener (if retry_403), goto, scroll
\* (if scroll), content, close, return in this order, skipping exactly the
\* steps whose option is off, unless it raises; so when the original
\* navigation starts the route and the listener are installed and the first
\* 403 response is counted.
C14_StepOrder ==
    /\ []InstalledBeforeNavigation
    /\ [][pc' # pc =>
            \/ pc' = "failed"
            \/ /\ Position(pc') > Position(pc)
               /\ Required(pc')
               /\ \A i \in (Position(pc) + 1)..(Position(pc') - 1) :
                     ~Required(Order[i])]_vars

\* C14 witness: a call with every option on has returned, with the patch,
\* the route and the listener installed and a 403 of the original navigation
\* counted.
C14_Witness ==
    /\ stealth /\ block_media /\ retry_403 /\ scroll
    /\ outcome = "returned"
    /\ patched /\ routed /\ listening
    /\ navs[1].status = 403
    /\ attempts >= 1

\* C15: attempts starts at 0 and stays within 0..max_retries; a step that
\* changes it adds exactly 1, delivers a 403 response, and is taken with
\* attempts < max_retries; it never goes down and is never reset.
C15_AttemptsCounter ==
    /\ attempts = 0
    /\ [](attempts \in 0..max_retries)
    /\ [][attempts' # attempts =>
            /\ attempts' = attempts + 1
            /\ attempts < max_retries
            /\ listening
            /\ Count403' = Count403 + 1]_vars

\* C15 witness: attempts has reached max_retries = 2 and a further 403
\* response has left it there.
C15_Witness ==
    /\ max_retries = 2
    /\ attempts = 2
    /\ Count403 > 2

\* navigation m has received a 403 response whose URL is u: its document, or
\* one of its sub-resources
Responded403(m, u) ==
    \/ navs[m].url = u /\ navs[m].status = 403
    \/ u = "sub" /\ \E i \in DOMAIN navs[m].subs : navs[m].subs[i] = 403

\* C16: a navigation started by a retry task goes to the URL of the response
\* the task was created for, and that response is a 403 response (document or
\* sub-resource) of an earlier navigation.
C16_RetryTargetsBlockedUrl ==
    \A n \in DOMAIN navs :
        navs[n].by # 0 =>
            /\ navs[n].by \in DOMAIN handlers
            /\ handlers[navs[n].by].retry_nav = n
            /\ navs[n].url = handlers[navs[n].by].url
            /\ handlers[navs[n].by].nav < n
            /\ Responded403(handlers[navs[n].by].nav, navs[n].url)

\* C16 witness: the document was answered 200 and a sub-resource 403, and
\* the retry navigation goes to the URL of the sub-resource.
C16_Witness ==
    /\ Len(navs) = 2
    /\ navs[1].url = "url"
    /\ navs[1].status = 200
    /\ navs[1].subs = <<403>>
    /\ navs[2].by = 1
    /\ navs[2].url = "sub"

\* C17: with scroll on (the document height is bounded, so it stops growing)
\* every tick of the script scrolls by dist; the script goes on while the
\* distance scrolled is below the height it measures, clears its timer at the
\* first tick where the distance has reached the height measured there, and
\* page.evaluate returns only from the pause that follows, so never with the
\* distance below the measured height.  A script that has started ends:
\* evaluate returns, unless the call raises.
C17_ScrollStopsAtHeight ==
    /\ [](/\ scrolled = ticks * dist
          /\ (pc = "auto_scroll" /\ ticks > 0) => scrolled < scrollHeight
          /\ pc = "scroll_pause"
             => /\ scrolled >= scrollHeight
                /\ scrolled - dist < scrollHeight
                /\ ticks >= 1)
    /\ [][/\ scrolled' > scrolled => scrolled' = scrolled + dist
          /\ (scroll /\ pc # "content" /\ pc' = "content")
             => /\ pc = "scroll_pause"
                /\ scrolled >= scrollHeight]_vars
    /\ (pc = "auto_scroll") ~> (pc \in {"content", "failed"})

\* C17 witness: the timer was cleared at the second tick, the first one at
\* which the 2048 px scrolled reached the height of 1280 px.
C17_Witness ==
    /\ scroll
    /\ pc = "scroll_pause"
    /\ scrollHeight = 1280
    /\ scrolled = 2048
    /\ ticks = 2

\* C18: when the launch or the original navigation raises, the call raises
\* that exception: it returns no document, the browser is not left open, and
\* no retry task is left that could navigate.  The listener does not react
\* to the failure: after a failed launch there is no navigation at all, and
\* after a failed navigation there are only the retry navigations of 403
\* responses received before, none when there was no such response.
C18_FailureReachesCaller ==
    failedAt \in {"launch", "goto_wait"} =>
        /\ outcome = "raised"
        /\ pc = "failed"
        /\ html = NoDoc
        /\ browser # "open"
        /\ \A h \in DOMAIN handlers : ~Running(h)
        /\ failedAt = "launch"
           => navs = <<>> /\ handlers = <<>> /\ attempts = 0 /\ launched = 0
        /\ failedAt = "goto_wait"
           => /\ RetryNavs <= Count403
              /\ Count403 = 0 => (Len(navs) = 1 /\ handlers = <<>> /\ attempts = 0)

\* C18 witness: with the listener installed the original navigation raised
\* before any response (a connection error or a timeout); the call raised
\* and that navigation is the only one.
C18_Witness ==
    /\ retry_403
    /\ max_retries >= 1
    /\ listening
    /\ failedAt = "goto_wait"
    /\ outcome = "raised"
    /\ Len(navs) = 1
    /\ navs[1].state = "pending"
    /\ browser = "closed"

\* C19: page.content() is taken only when no retry is pending: in the step
\* in which line 101 returns the document, no on_response task is between
\* its increment of attempts and the return of its page.goto.
C19_ContentOnlyWhenSettled ==
    [][(pc = "content" /\ pc' = "close")
       => \A h \in DOMAIN handlers : ~Running(h)]_vars

\* a step in which task h calls a method of the page or of its context:
\* line 170 (by a task that starts), line 171 or line 175
CallsSession(h) ==
    \/ h \notin DOMAIN handlers
    \/ /\ h \in DOMAIN handlers
       /\ handlers'[h].pc # handlers[h].pc
       /\ handlers'[h].pc \in {"set_user_agent", "goto_wait", "goto_closed"}

\* C20: once the browser is closed no on_response task calls
\* set_extra_http_headers, set_user_agent or page.goto any more.
C20_NoCallAfterClose ==
    [][browser # "open" => \A h \in DOMAIN handlers' : ~CallsSession(h)]_vars

\* C21: the navigation of the main flow is started with the wait_until of
\* the request, and every navigation started by a retry task with
\* "networkidle", whatever the wait_until of the request is.
C21_RetryWaitsNetworkIdle ==
    \A n \in DOMAIN navs :
        /\ navs[n].by = 0 => (n = 1 /\ navs[n].wait = wait_until)
        /\ navs[n].by # 0 => (n > 1 /\ navs[n].wait = "networkidle")

\* C21 witness: the request asks for "load"; its navigation was started with
\* "load" and the retry navigation after the 403 with "networkidle".
C21_Witness ==
    /\ wait_until = "load"
    /\ Len(navs) = 2
    /\ navs[1].by = 0
    /\ navs[1].wait = "load"
    /\ navs[1].status = 403
    /\ navs[2].by = 1
    /\ navs[2].wait = "networkidle"

====
